---------------------------- MODULE Spec2Model ----------------------------
(***************************************************************************)
(* A model of krunkit's command-line grammar (src/cmdline.rs): the token   *)
(* grammar (args_parse, val_parse), the virtio device resolver and its     *)
(* per-variant parsers, and the binding of a parsed device to a libkrun    *)
(* context (krun_ctx_set).                                                 *)
(*                                                                         *)
(* A Rust String is a sequence of characters, each a one-character TLA+    *)
(* string; the byte 0 is the character NUL.  A Result is a record with     *)
(* the field ok, and val or err; an anyhow error is a record holding the   *)
(* format string of the source and its arguments.                          *)
(***************************************************************************)
EXTENDS Integers, Sequences, FiniteSets, TLC

VARIABLES
    pc,      \* the position of the program
    s,       \* the string handed to the parser under study
    label,   \* the label argument of args_parse / val_parse
    sz,      \* the sz argument of args_parse (an Option<usize>)
    out,     \* the Result the parser returned
    id,      \* the context id handed to krun_ctx_set
    heap,    \* the CString buffers: address -> [alive, bytes]
    locals,  \* the raw pointers krun_ctx_set holds in its let bindings
    calls,   \* the boundary calls made so far, with what each pointer referred to
    status,  \* the status the last boundary call returned
    ret      \* the Result krun_ctx_set returned

vars == <<pc, s, label, sz, out, id, heap, locals, calls, status, ret>>

---------------------------------------------------------------------------
(* Bounds of the model.                                                    *)

MaxLen == 4

MaxFields == 3

MaxPortLen == 2

MaxFsFields == 3

NumAddrs == 2

MaxStatus == 1

---------------------------------------------------------------------------
(* Option and Result.                                                      *)

None == [some |-> FALSE]

Some(v) == [some |-> TRUE, val |-> v]

Ok(v) == [ok |-> TRUE, val |-> v]

Err(e) == [ok |-> FALSE, err |-> e]

\* The value of a variable that holds no Result yet.
Unset == [set |-> FALSE]

---------------------------------------------------------------------------
(* String literals of the source.                                          *)

NUL == "NUL"

W_virtio == <<"v", "i", "r", "t", "i", "o">>

W_virtio_blk == <<"v", "i", "r", "t", "i", "o", "-", "b", "l", "k">>

W_virtio_rng == <<"v", "i", "r", "t", "i", "o", "-", "r", "n", "g">>

W_virtio_serial == <<"v", "i", "r", "t", "i", "o", "-", "s", "e", "r", "i", "a", "l">>

W_virtio_vsock == <<"v", "i", "r", "t", "i", "o", "-", "v", "s", "o", "c", "k">>

W_virtio_net == <<"v", "i", "r", "t", "i", "o", "-", "n", "e", "t">>

W_virtio_fs == <<"v", "i", "r", "t", "i", "o", "-", "f", "s">>

W_path == <<"p", "a", "t", "h">>

W_logFilePath == <<"l", "o", "g", "F", "i", "l", "e", "P", "a", "t", "h">>

W_port == <<"p", "o", "r", "t">>

W_socketURL == <<"s", "o", "c", "k", "e", "t", "U", "R", "L">>

W_unixSocketPath == <<"u", "n", "i", "x", "S", "o", "c", "k", "e", "t", "P", "a", "t", "h">>

W_mac == <<"m", "a", "c">>

W_sharedDir == <<"s", "h", "a", "r", "e", "d", "D", "i", "r">>

W_mountTag == <<"m", "o", "u", "n", "t", "T", "a", "g">>

W_listen == <<"l", "i", "s", "t", "e", "n">>

---------------------------------------------------------------------------
(* Strings: str::split, [String]::join, str::to_lowercase.                 *)

\* The index of the first occurrence of the character d in str, or 0.
RECURSIVE FindFrom(_, _, _)
FindFrom(str, d, i) ==
    IF i > Len(str) THEN 0
    ELSE IF str[i] = d THEN i
    ELSE FindFrom(str, d, i + 1)

\* A faulty Split: drops the empty fields, as split_terminator and a
\* filter on is_empty would.
RECURSIVE SplitSkipEmpty(_, _)
SplitSkipEmpty(str, d) ==
    LET i == FindFrom(str, d, 1) IN
    IF i = 0 THEN (IF str = <<>> THEN <<>> ELSE <<str>>)
    ELSE (IF i = 1 THEN <<>> ELSE <<SubSeq(str, 1, i - 1)>>)
         \o SplitSkipEmpty(SubSeq(str, i + 1, Len(str)), d)

\* str.split(d): the substrings of str between the occurrences of d, in
\* order; a string without d is its own single field, the empty string
\* included.
RECURSIVE Split(_, _)
Split(str, d) ==
    LET i == FindFrom(str, d, 1) IN
    IF i = 0 THEN <<str>>
    ELSE <<SubSeq(str, 1, i - 1)>> \o Split(SubSeq(str, i + 1, Len(str)), d)

\* list.join(d)
RECURSIVE Join(_, _)
Join(list, d) ==
    IF list = <<>> THEN <<>>
    ELSE IF Len(list) = 1 THEN list[1]
    ELSE list[1] \o <<d>> \o Join(Tail(list), d)

Upper ==
    <<"A", "B", "C", "D", "E", "F", "G", "H", "I", "J", "K", "L", "M",
      "N", "O", "P", "Q", "R", "S", "T", "U", "V", "W", "X", "Y", "Z">>

Lower ==
    <<"a", "b", "c", "d", "e", "f", "g", "h", "i", "j", "k", "l", "m",
      "n", "o", "p", "q", "r", "s", "t", "u", "v", "w", "x", "y", "z">>

\* char::to_lowercase on the ASCII range.
ToLowerChar(c) ==
    IF \E k \in 1..26 : Upper[k] = c
    THEN Lower[CHOOSE k \in 1..26 : Upper[k] = c]
    ELSE c

\* str::to_lowercase
ToLowercase(str) == [k \in 1..Len(str) |-> ToLowerChar(str[k])]

---------------------------------------------------------------------------
(* The token grammar.                                                      *)

\* pub fn args_parse(s: String, label: &str, sz: Option<usize>)
args_parse(str, lbl, size) ==
    LET list == Split(str, ",") IN
    IF size.some /\ Len(list) # size.val
    THEN Err([msg |-> "expected --{} argument to have {} comma-separated sub-arguments, found {}",
              label |-> lbl, size |-> size.val, found |-> Len(list)])
    ELSE Ok(list)

\* A faulty val_parse: compares the label ignoring case.
val_parse_nocase(str, lbl) ==
    LET vals == Split(str, "=") IN
    IF Len(vals) = 1 THEN Ok(vals[1])
    ELSE IF Len(vals) = 2
    THEN IF ToLowercase(vals[1]) # ToLowercase(lbl)
         THEN Err([msg |-> "expected label {}, found {}",
                   label |-> lbl, label_found |-> vals[1]])
         ELSE Ok(vals[2])
    ELSE Err([msg |-> "invalid argument format: {}", arg |-> str])

\* pub fn val_parse(s: String, label: &str)
val_parse(str, lbl) ==
    LET vals == Split(str, "=") IN
    IF Len(vals) = 1 THEN Ok(vals[1])
    ELSE IF Len(vals) = 2
    THEN IF vals[1] # lbl
         THEN Err([msg |-> "expected label {}, found {}",
                   label |-> lbl, label_found |-> vals[1]])
         ELSE Ok(vals[2])
    ELSE Err([msg |-> "invalid argument format: {}", arg |-> str])

---------------------------------------------------------------------------
(* Input strings.                                                          *)

\* The strings of length at most n over the alphabet A.
RECURSIVE Strings(_, _)
Strings(A, n) ==
    IF n = 0 THEN {<<>>}
    ELSE LET shorter == Strings(A, n - 1) IN
         shorter \cup {Append(t, c) : t \in shorter, c \in A}

\* The number of occurrences of the character d in str.
RECURSIVE Count(_, _)
Count(str, d) ==
    IF str = <<>> THEN 0
    ELSE (IF Head(str) = d THEN 1 ELSE 0) + Count(Tail(str), d)

Idle ==
    /\ id = 0
    /\ heap = <<>>
    /\ locals = <<>>
    /\ calls = <<>>
    /\ status = None
    /\ ret = Unset

---------------------------------------------------------------------------
(* args_parse applied to every short string over a, = and the comma.       *)

ArgsAlphabet == {"a", "=", ","}

ArgsLabels == {W_virtio, W_virtio_blk}

InitArgs ==
    /\ pc = "args_parse"
    /\ s \in Strings(ArgsAlphabet, MaxLen)
    /\ label \in ArgsLabels
    /\ sz \in {None} \cup {Some(n) : n \in 0..MaxLen}
    /\ out = Unset
    /\ Idle

ArgsParse ==
    /\ pc = "args_parse"
    /\ out' = args_parse(s, label, sz)
    /\ pc' = "done"
    /\ UNCHANGED <<s, label, sz, id, heap, locals, calls, status, ret>>

SpecArgs == InitArgs /\ [][ArgsParse]_vars

\* C1: args_parse succeeds exactly when no count is given or the number of
\* fields, which is the number of commas plus one, equals it; on success
\* the result is the ordered list of the comma-free substrings between the
\* commas (joined by commas they give the input back); on failure the
\* error names the label, the expected count and the count found.
C1_SplitFields ==
    pc = "done" =>
        LET n == Count(s, ",") + 1 IN
        /\ out.ok <=> (~sz.some \/ sz.val = n)
        /\ out.ok =>
              /\ Len(out.val) = n
              /\ \A k \in 1..Len(out.val) : Count(out.val[k], ",") = 0
              /\ Join(out.val, ",") = s
        /\ ~out.ok =>
              /\ out.err.label = label
              /\ out.err.size = sz.val
              /\ out.err.found = n

\* The empty string gave the single empty field, and a string with an
\* empty field between two commas was split under a matching count.
C1_Witness ==
    /\ pc = "done"
    /\ s = <<"a", ",", ",", "=">>
    /\ sz = Some(3)
    /\ out.ok
    /\ out.val = << <<"a">>, <<>>, <<"=">> >>

---------------------------------------------------------------------------
(* val_parse applied to every short string over p, P, a and =.             *)

ValAlphabet == {"p", "P", "a", "="}

ValLabels == {<<"p">>, <<"p", "a">>, <<>>}

InitVal ==
    /\ pc = "val_parse"
    /\ s \in Strings(ValAlphabet, MaxLen)
    /\ label \in ValLabels
    /\ sz = None
    /\ out = Unset
    /\ Idle

ValParse ==
    /\ pc = "val_parse"
    /\ out' = val_parse(s, label)
    /\ pc' = "done"
    /\ UNCHANGED <<s, label, sz, id, heap, locals, calls, status, ret>>

SpecVal == InitVal /\ [][ValParse]_vars

\* C2: a token without = is returned whole, whatever the label; a token
\* with one = yields what follows the = exactly when what precedes it is
\* the expected label, compared case-sensitively, and a label mismatch
\* otherwise; a token with two or more = is malformed.
C2_SplitLabel ==
    pc = "done" =>
        LET eqs == Count(s, "=")
            i == FindFrom(s, "=", 1)
        IN
        /\ eqs = 0 => out.ok /\ out.val = s
        /\ eqs = 1 =>
              /\ out.ok <=> SubSeq(s, 1, i - 1) = label
              /\ out.ok => out.val = SubSeq(s, i + 1, Len(s))
              /\ ~out.ok => out.err.msg = "expected label {}, found {}"
        /\ eqs >= 2 =>
              /\ ~out.ok
              /\ out.err.msg = "invalid argument format: {}"
              /\ out.err.arg = s

\* A label that differs from the expected one only in case was refused.
C2_Witness ==
    /\ pc = "done"
    /\ s = <<"P", "=", "a">>
    /\ label = <<"p">>
    /\ ~out.ok
    /\ out.err.label_found = <<"P">>

---------------------------------------------------------------------------
(* Conversions of the standard library.                                    *)

\* anyhow's Context::context: wraps the error of a failed Result.
Context(res, message) ==
    IF res.ok THEN res ELSE Err([msg |-> message, source |-> res.err])

\* PathBuf::from_str: infallible (its Err is Infallible); the path holds
\* the characters of the string as they are.
PathBuf_from_str(str) == Ok(str)

Digits == <<"0", "1", "2", "3", "4", "5", "6", "7", "8", "9">>

IsDigit(c) == \E k \in 1..10 : Digits[k] = c

\* char::to_digit(10) of a digit.
ToDigit(c) == (CHOOSE k \in 1..10 : Digits[k] = c) - 1

\* A u32 is a pair of 16-bit limbs <<hi, lo>>, of value hi * 2^16 + lo.
\* u32::checked_mul(10)
CheckedMul10(n) ==
    LET lo10 == n[2] * 10
        hi10 == n[1] * 10 + (lo10 \div 65536)
    IN IF hi10 >= 65536 THEN None ELSE Some(<<hi10, lo10 % 65536>>)

\* u32::checked_add(x) for a digit x
CheckedAdd(n, x) ==
    LET lo2 == n[2] + x
        hi2 == n[1] + (lo2 \div 65536)
    IN IF hi2 >= 65536 THEN None ELSE Some(<<hi2, lo2 % 65536>>)

\* The digit loop of u32::from_str: the digit is converted before the
\* overflow of the multiplication is looked at.
RECURSIVE ParseDigits(_, _, _)
ParseDigits(digits, i, acc) ==
    IF i > Len(digits) THEN Ok(acc)
    ELSE LET mul == CheckedMul10(acc) IN
         IF ~IsDigit(digits[i]) THEN Err("InvalidDigit")
         ELSE IF ~mul.some THEN Err("PosOverflow")
         ELSE LET sum == CheckedAdd(mul.val, ToDigit(digits[i])) IN
              IF ~sum.some THEN Err("PosOverflow")
              ELSE ParseDigits(digits, i + 1, sum.val)

\* A faulty u32_from_str: a u16, the port range of TCP.
u16_from_str(str) ==
    LET r == ParseDigits(IF str # <<>> /\ str[1] = "+" THEN Tail(str) ELSE str,
                         1, <<0, 0>>)
    IN IF str = <<>> THEN Err("Empty")
       ELSE IF Len(str) = 1 /\ str[1] \in {"+", "-"} THEN Err("InvalidDigit")
       ELSE IF r.ok /\ r.val[1] > 0 THEN Err("PosOverflow")
       ELSE r

\* u32::from_str: an optional single + and then digits; an unsigned type
\* takes no - sign.
u32_from_str(str) ==
    IF str = <<>> THEN Err("Empty")
    ELSE IF Len(str) = 1 /\ str[1] \in {"+", "-"} THEN Err("InvalidDigit")
    ELSE ParseDigits(IF str[1] = "+" THEN Tail(str) ELSE str, 1, <<0, 0>>)

---------------------------------------------------------------------------
(* The per-variant parsers.                                                *)

\* impl FromStr for BlkConfig
BlkConfig_from_str(str) ==
    LET a == args_parse(str, W_virtio_blk, Some(1)) IN
    IF ~a.ok THEN a
    ELSE LET v == val_parse(a.val[1], W_path) IN
         IF ~v.ok THEN v
         ELSE LET p == Context(PathBuf_from_str(v.val), "path argument not a valid path") IN
              IF ~p.ok THEN p ELSE Ok([path |-> p.val])

\* impl FromStr for SerialConfig
SerialConfig_from_str(str) ==
    LET a == args_parse(str, W_virtio_serial, Some(1)) IN
    IF ~a.ok THEN a
    ELSE LET v == val_parse(a.val[1], W_logFilePath) IN
         IF ~v.ok THEN v
         ELSE LET p == Context(PathBuf_from_str(v.val),
                               "logFilePath argument not a valid path") IN
              IF ~p.ok THEN p ELSE Ok([log_file_path |-> p.val])

\* impl FromStr for VsockAction
VsockAction_from_str(str) ==
    IF ToLowercase(str) = W_listen THEN Ok("Listen")
    ELSE Err([msg |-> "invalid vsock action"])

\* impl FromStr for VsockConfig
VsockConfig_from_str(str) ==
    LET a == args_parse(str, W_virtio_vsock, Some(3)) IN
    IF ~a.ok THEN a
    ELSE LET pv == val_parse(a.val[1], W_port) IN
         IF ~pv.ok THEN pv
         ELSE LET port == Context(u32_from_str(pv.val), "port argument invalid") IN
              IF ~port.ok THEN port
              ELSE LET sv == val_parse(a.val[2], W_socketURL) IN
                   IF ~sv.ok THEN sv
                   ELSE LET socket_url == Context(PathBuf_from_str(sv.val),
                                                  "socketURL argument not a valid path") IN
                        IF ~socket_url.ok THEN socket_url
                        ELSE LET action == VsockAction_from_str(a.val[3]) IN
                             IF ~action.ok THEN action
                             ELSE Ok([port |-> port.val,
                                      socket_url |-> socket_url.val,
                                      action |-> action.val])

\* impl FromStr for NetConfig
NetConfig_from_str(str) ==
    LET a == args_parse(str, W_virtio_net, Some(2)) IN
    IF ~a.ok THEN a
    ELSE LET v == val_parse(a.val[1], W_unixSocketPath) IN
         IF ~v.ok THEN v
         ELSE LET p == Context(PathBuf_from_str(v.val),
                               "unixSocketPath argument not a valid path") IN
              IF ~p.ok THEN p
              ELSE LET m == val_parse(a.val[2], W_mac) IN
                   IF ~m.ok THEN m
                   ELSE Ok([unix_socket_path |-> p.val, mac_address |-> m.val])

\* The two labelled fields of a virtio-fs device, from the field list.
FsFields(args) ==
    LET sv == val_parse(args[1], W_sharedDir) IN
    IF ~sv.ok THEN sv
    ELSE LET shared_dir == Context(PathBuf_from_str(sv.val),
                                   "sharedDir argument not a valid path") IN
         IF ~shared_dir.ok THEN shared_dir
         ELSE LET mv == val_parse(args[2], W_mountTag) IN
              IF ~mv.ok THEN mv
              ELSE LET mount_tag == Context(PathBuf_from_str(mv.val),
                                            "mountTag argument not a valid path") IN
                   IF ~mount_tag.ok THEN mount_tag
                   ELSE Ok([shared_dir |-> shared_dir.val, mount_tag |-> mount_tag.val])

\* A faulty FsConfig_from_str: an exact count of two fields.
FsConfig_from_str_exact(str) ==
    LET a == args_parse(str, W_virtio_fs, Some(2)) IN
    IF ~a.ok THEN a ELSE FsFields(a.val)

\* impl FromStr for FsConfig
FsConfig_from_str(str) ==
    LET a == args_parse(str, W_virtio_fs, None) IN
    IF ~a.ok THEN a
    ELSE IF Len(a.val) < 2
    THEN Err([msg |-> "expected at least 2 arguments, found {}", found |-> Len(a.val)])
    ELSE FsFields(a.val)

---------------------------------------------------------------------------
(* The device variant resolver.                                            *)

\* A variant of VirtioDeviceConfig carrying the payload of a parser.
Wrap(tag, r) == IF r.ok THEN Ok([tag |-> tag, cfg |-> r.val]) ELSE r

\* The match of VirtioDeviceConfig::from_str on the first field.
Dispatch(first, rest) ==
    IF first = W_virtio_blk THEN Wrap("Blk", BlkConfig_from_str(rest))
    ELSE IF first = W_virtio_rng THEN Ok([tag |-> "Rng"])
    ELSE IF first = W_virtio_serial THEN Wrap("Serial", SerialConfig_from_str(rest))
    ELSE IF first = W_virtio_vsock THEN Wrap("Vsock", VsockConfig_from_str(rest))
    ELSE IF first = W_virtio_net THEN Wrap("Net", NetConfig_from_str(rest))
    ELSE IF first = W_virtio_fs THEN Wrap("Fs", FsConfig_from_str(rest))
    ELSE Err([msg |-> "invalid virtio device label specified: {}", arg |-> first])

\* A faulty VirtioDeviceConfig_from_str: matches the tag ignoring case.
VirtioDeviceConfig_from_str_nocase(str) ==
    LET a == args_parse(str, W_virtio, None) IN
    IF ~a.ok THEN a
    ELSE IF a.val = <<>> THEN Err([msg |-> "no virtio device config found"])
    ELSE Dispatch(ToLowercase(a.val[1]), Join(Tail(a.val), ","))

\* impl FromStr for VirtioDeviceConfig
VirtioDeviceConfig_from_str(str) ==
    LET a == args_parse(str, W_virtio, None) IN
    IF ~a.ok THEN a
    ELSE IF a.val = <<>> THEN Err([msg |-> "no virtio device config found"])
    ELSE Dispatch(a.val[1], Join(Tail(a.val), ","))

---------------------------------------------------------------------------
(* The resolver applied to device specifications: a tag, then up to        *)
(* MaxFields fields.                                                       *)

\* The sequences of at most n elements of the set F.
RECURSIVE Lists(_, _)
Lists(F, n) ==
    IF n = 0 THEN {<<>>}
    ELSE LET shorter == Lists(F, n - 1) IN
         shorter \cup {Append(l, f) : l \in shorter, f \in F}

W_virtio_xyz == <<"v", "i", "r", "t", "i", "o", "-", "x", "y", "z">>

W_Virtio_blk == <<"V", "i", "r", "t", "i", "o", "-", "b", "l", "k">>

KnownTags ==
    {W_virtio_blk, W_virtio_rng, W_virtio_serial, W_virtio_vsock, W_virtio_net,
     W_virtio_fs}

DevTags == KnownTags \cup {W_virtio_xyz, W_Virtio_blk, <<>>}

DevFieldPool ==
    { <<>>,
      <<"/", "a">>,
      W_path \o <<"=", "/", "a">>,
      W_listen,
      <<"7">>,
      W_mountTag \o <<"=", "t">>,
      <<"a", "=", "b", "=", "c">> }

DevSpecs == {Join(<<tag>> \o fields, ",") : tag \in DevTags,
                                            fields \in Lists(DevFieldPool, MaxFields)}

InitDev ==
    /\ pc = "resolve"
    /\ s \in DevSpecs
    /\ label = <<>>
    /\ sz = None
    /\ out = Unset
    /\ Idle

Resolve ==
    /\ pc = "resolve"
    /\ out' = VirtioDeviceConfig_from_str(s)
    /\ pc' = "done"
    /\ UNCHANGED <<s, label, sz, id, heap, locals, calls, status, ret>>

SpecDev == InitDev /\ [][Resolve]_vars

\* The part of str before its first comma: the type tag of a device spec.
FirstField(str) ==
    LET i == FindFrom(str, ",", 1) IN
    IF i = 0 THEN str ELSE SubSeq(str, 1, i - 1)

\* The tag a variant projects back to.
TagOf(variant) ==
    CASE variant.tag = "Blk" -> W_virtio_blk
      [] variant.tag = "Rng" -> W_virtio_rng
      [] variant.tag = "Serial" -> W_virtio_serial
      [] variant.tag = "Vsock" -> W_virtio_vsock
      [] variant.tag = "Net" -> W_virtio_net
      [] variant.tag = "Fs" -> W_virtio_fs

\* C3: a resolved variant projects back to the first field of the spec,
\* and a spec whose first field is none of the six tags, compared
\* case-sensitively, the empty one included, fails with the
\* unknown-device-type error naming that field.
C3_ResolveTag ==
    pc = "done" =>
        /\ out.ok => TagOf(out.val) = FirstField(s)
        /\ FirstField(s) \notin KnownTags =>
              /\ ~out.ok
              /\ out.err.msg = "invalid virtio device label specified: {}"
              /\ out.err.arg = FirstField(s)

\* A tag that differs from virtio-blk only in case, followed by a field
\* virtio-blk would accept, was refused as an unknown device type.
C3_Witness ==
    /\ pc = "done"
    /\ s = W_Virtio_blk \o <<",">> \o W_path \o <<"=", "/", "a">>
    /\ ~out.ok
    /\ out.err.arg = W_Virtio_blk

\* The number of fields each tag with an exact count takes after the tag.
ExpectedFields(tag) ==
    CASE tag = W_virtio_blk -> 1
      [] tag = W_virtio_rng -> 0
      [] tag = W_virtio_serial -> 1
      [] tag = W_virtio_vsock -> 3
      [] tag = W_virtio_net -> 2

\* C4: a spec tagged virtio-blk, virtio-rng, virtio-serial, virtio-vsock or
\* virtio-net resolves only if the number of comma-separated fields that
\* follow the tag is exactly 1, 0, 1, 3 and 2 respectively.
C4_ExactFieldCount ==
    (pc = "done" /\ out.ok /\ FirstField(s) \in KnownTags \ {W_virtio_fs}) =>
        Count(s, ",") = ExpectedFields(FirstField(s))

---------------------------------------------------------------------------
(* FsConfig::from_str applied to residual strings of up to MaxFsFields     *)
(* fields.                                                                 *)

FsFieldPool ==
    { <<>>,
      <<"/", "a">>,
      W_sharedDir \o <<"=", "/", "a">>,
      W_mountTag \o <<"=", "t">>,
      W_mountTag \o <<"=", "/", "b">>,
      <<"a", "=", "b", "=", "c">> }

InitFs ==
    /\ pc = "fs_from_str"
    /\ s \in {Join(fields, ",") : fields \in Lists(FsFieldPool, MaxFsFields)}
    /\ label = <<>>
    /\ sz = None
    /\ out = Unset
    /\ Idle

FsParse ==
    /\ pc = "fs_from_str"
    /\ out' = FsConfig_from_str(s)
    /\ pc' = "done"
    /\ UNCHANGED <<s, label, sz, id, heap, locals, calls, status, ret>>

SpecFs == InitFs /\ [][FsParse]_vars

\* The part of str before its second comma: its first two fields.
FirstTwo(str) ==
    LET i == FindFrom(str, ",", 1)
        j == FindFrom(str, ",", i + 1)
    IN IF j = 0 THEN str ELSE SubSeq(str, 1, j - 1)

\* C5: a residual string of fewer than two fields fails with the
\* insufficient-arguments error; one of two or more fields gives the
\* result of its first two fields alone, which on success holds the values
\* of the first field as shared_dir and of the second as mount_tag.
C5_SharedFsFirstTwo ==
    pc = "done" =>
        LET n == Count(s, ",") + 1
            two == Split(FirstTwo(s), ",")
        IN
        /\ n < 2 =>
              /\ ~out.ok
              /\ out.err.msg = "expected at least 2 arguments, found {}"
              /\ out.err.found = n
        /\ n >= 2 =>
              /\ out = FsConfig_from_str(FirstTwo(s))
              /\ out.ok <=> /\ val_parse(two[1], W_sharedDir).ok
                            /\ val_parse(two[2], W_mountTag).ok
              /\ out.ok => /\ out.val.shared_dir = val_parse(two[1], W_sharedDir).val
                           /\ out.val.mount_tag = val_parse(two[2], W_mountTag).val

\* Three fields, the third malformed, parsed as the first two do.
C5_Witness ==
    /\ pc = "done"
    /\ s = W_sharedDir \o <<"=", "/", "a", ",">> \o W_mountTag \o <<"=", "t", ",">>
           \o <<"a", "=", "b", "=", "c">>
    /\ out.ok
    /\ out.val = [shared_dir |-> <<"/", "a">>, mount_tag |-> <<"t">>]

---------------------------------------------------------------------------
(* VsockConfig::from_str applied to residual strings of three fields.      *)

W_LISTEN == <<"L", "I", "S", "T", "E", "N">>

W_4294967295 == <<"4", "2", "9", "4", "9", "6", "7", "2", "9", "5">>

W_4294967296 == <<"4", "2", "9", "4", "9", "6", "7", "2", "9", "6">>

PortValues ==
    Strings({"0", "7", "+", "-", "a"}, MaxPortLen)
        \cup {W_4294967295, W_4294967296, <<"0">> \o W_4294967295,
              <<"+">> \o W_4294967295, W_4294967295 \o <<"0">>}

PortFieldPool ==
    PortValues \cup {W_port \o <<"=">> \o v : v \in PortValues}
        \cup {<<"P", "o", "r", "t", "=", "7">>, W_port \o <<"=", "7", "=", "7">>}

SocketFieldPool ==
    { <<"/", "a">>,
      W_socketURL \o <<"=", "/", "a">>,
      <<"s", "o", "c", "k", "e", "t", "u", "r", "l", "=", "/", "a">>,
      <<>>,
      <<"a", "=", "b", "=", "c">> }

ActionFieldPool ==
    { W_listen, W_LISTEN, <<"L", "i", "s", "t", "e", "n">>,
      <<"c", "o", "n", "n", "e", "c", "t">>, <<>>, W_listen \o <<"s">> }

InitVsock ==
    /\ pc = "vsock_from_str"
    /\ s \in {Join(<<p, u, a>>, ",") : p \in PortFieldPool, u \in SocketFieldPool,
                                       a \in ActionFieldPool}
    /\ label = <<>>
    /\ sz = None
    /\ out = Unset
    /\ Idle

VsockParse ==
    /\ pc = "vsock_from_str"
    /\ out' = VsockConfig_from_str(s)
    /\ pc' = "done"
    /\ UNCHANGED <<s, label, sz, id, heap, locals, calls, status, ret>>

SpecVsock == InitVsock /\ [][VsockParse]_vars

\* A field is bare, or labelled with lbl by a single =.
LabelOK(f, lbl) ==
    \/ Count(f, "=") = 0
    \/ /\ Count(f, "=") = 1
       /\ SubSeq(f, 1, FindFrom(f, "=", 1) - 1) = lbl

\* The value of a bare or labelled field.
ValueOf(f) ==
    IF Count(f, "=") = 0 THEN f ELSE SubSeq(f, FindFrom(f, "=", 1) + 1, Len(f))

DigitChars == {"0", "1", "2", "3", "4", "5", "6", "7", "8", "9"}

AllDigits(d) == d # <<>> /\ \A k \in 1..Len(d) : d[k] \in DigitChars

\* A digit string without its leading zeros (one digit is kept).
RECURSIVE StripZeros(_)
StripZeros(d) ==
    IF Len(d) > 1 /\ d[1] = "0" THEN StripZeros(Tail(d)) ELSE d

\* a <= b for digit strings of the same length.
RECURSIVE DigitsLE(_, _)
DigitsLE(a, b) ==
    IF a = <<>> THEN TRUE
    ELSE LET x == CHOOSE k \in 1..10 : Digits[k] = a[1]
             y == CHOOSE k \in 1..10 : Digits[k] = b[1]
         IN IF x # y THEN x < y ELSE DigitsLE(Tail(a), Tail(b))

\* The digit string d denotes a number of 0 .. 2^32 - 1.
InU32Range(d) ==
    LET z == StripZeros(d) IN
    Len(z) < 10 \/ (Len(z) = 10 /\ DigitsLE(z, W_4294967295))

\* A decimal integer of 0 .. 2^32 - 1: digits only.
IsDecimalU32(v) == AllDigits(v) /\ InU32Range(v)

\* v without one leading +.
Unsigned(v) == IF v # <<>> /\ v[1] = "+" THEN Tail(v) ELSE v

\* The decimal digits of a u32 given by its limbs, as Display writes it.
RECURSIVE U32Digits(_)
U32Digits(n) ==
    IF n = <<0, 0>> THEN <<>>
    ELSE LET r == (n[1] % 10) * 65536 + n[2] IN
         U32Digits(<<n[1] \div 10, r \div 10>>) \o <<Digits[(r % 10) + 1]>>

U32ToString(n) == IF n = <<0, 0>> THEN <<"0">> ELSE U32Digits(n)

\* f is listen in any mix of cases.
IsListen(f) ==
    /\ Len(f) = Len(W_listen)
    /\ \A k \in 1..Len(f) : f[k] \in {W_listen[k], W_LISTEN[k]}

\* C6 as stated: a three-field string parses if and only if the port field,
\* bare or labelled port, holds a decimal integer of 0 .. 2^32 - 1, the
\* second field is bare or labelled socketURL, and the third is listen
\* ignoring case.
C6_PortIsDecimalInteger ==
    pc = "done" =>
        LET f == Split(s, ",") IN
        out.ok <=> /\ LabelOK(f[1], W_port)
                   /\ IsDecimalU32(ValueOf(f[1]))
                   /\ LabelOK(f[2], W_socketURL)
                   /\ IsListen(f[3])

\* C6 as amended: the port may carry one leading + before its digits.  On
\* success the variant holds the number the digits denote, the value of
\* the second field and the action Listen; a port field with a good label
\* and a bad number fails with the conversion error of the port, a bad
\* action after two good fields with the invalid-vsock-action error, and a
\* failure holds no variant.
C6_VsockParse ==
    pc = "done" =>
        LET f == Split(s, ",")
            portOK == /\ LabelOK(f[1], W_port)
                      /\ IsDecimalU32(Unsigned(ValueOf(f[1])))
        IN
        /\ out.ok <=> /\ portOK
                      /\ LabelOK(f[2], W_socketURL)
                      /\ IsListen(f[3])
        /\ out.ok =>
              /\ U32ToString(out.val.port) = StripZeros(Unsigned(ValueOf(f[1])))
              /\ out.val.socket_url = ValueOf(f[2])
              /\ out.val.action = "Listen"
        /\ (LabelOK(f[1], W_port) /\ ~portOK) =>
              /\ ~out.ok
              /\ out.err.msg = "port argument invalid"
        /\ (portOK /\ LabelOK(f[2], W_socketURL) /\ ~IsListen(f[3])) =>
              /\ ~out.ok
              /\ out.err.msg = "invalid vsock action"
        /\ ~out.ok => DOMAIN out = {"ok", "err"}

\* The largest port, labelled, with a labelled socket and an upper-case
\* action, parsed.
C6_Witness ==
    /\ pc = "done"
    /\ s = W_port \o <<"=">> \o W_4294967295 \o <<",">> \o W_socketURL
           \o <<"=", "/", "a", ",">> \o W_LISTEN
    /\ out.ok
    /\ out.val = [port |-> <<65535, 65535>>, socket_url |-> <<"/", "a">>,
                  action |-> "Listen"]

---------------------------------------------------------------------------
(* Binding a resolved device to a context: krun_ctx_set.                   *)
(*                                                                         *)
(* Each let statement of a krun_ctx_set that takes as_ptr() of the CString *)
(* path_to_cstring returns is one step: the CString is a temporary of the  *)
(* statement and is dropped where the statement ends, so that the pointer  *)
(* kept refers to a freed buffer.  What a freed buffer holds is not        *)
(* defined: the step chooses among the bytes as they were, the bytes with  *)
(* the first one zeroed (the Drop of CString) and bytes of the allocator.  *)

MaxId == 1

Ids == 0..MaxId

Addrs == 1..NumAddrs

\* The status an i32 boundary function may return.
Statuses == (0 - MaxStatus)..MaxStatus

PathPool == { <<"/", "a">>, <<"t">>, <<"/", NUL>>, <<>> }

BindSpecs ==
    {W_virtio_blk \o <<",">> \o W_path \o <<"=">> \o p : p \in PathPool}
    \cup {W_virtio_rng,
          W_virtio_serial \o <<",", "/", "a">>,
          W_virtio_net \o <<",", "/", "a", ",", "m">>,
          W_virtio_xyz \o <<",", "/", "a">>}
    \cup {W_virtio_vsock \o <<",">> \o n \o <<",">> \o W_socketURL \o <<"=">> \o p
              \o <<",">> \o W_listen
            : n \in {<<"7">>, W_4294967295}, p \in PathPool}
    \cup {W_virtio_fs \o <<",">> \o p \o <<",">> \o W_mountTag \o <<"=">> \o q
            : p \in PathPool, q \in PathPool}

InitBind ==
    /\ pc = "resolve"
    /\ s \in BindSpecs
    /\ label = <<>>
    /\ sz = None
    /\ out = Unset
    /\ id \in Ids
    /\ heap = [a \in Addrs |-> [alive |-> FALSE, bytes |-> <<>>]]
    /\ locals = <<>>
    /\ calls = <<>>
    /\ status = None
    /\ ret = Unset

\* The command line is resolved; only a resolved device is ever bound.
ResolveDevice ==
    /\ pc = "resolve"
    /\ out' = VirtioDeviceConfig_from_str(s)
    /\ pc' = IF out'.ok THEN "bind" ELSE "rejected"
    /\ UNCHANGED <<s, label, sz, id, heap, locals, calls, status, ret>>

\* fn path_to_cstring: CString::new refuses an interior 0 byte and appends
\* the terminating one.
path_to_cstring(path) ==
    IF \E k \in 1..Len(path) : path[k] = NUL
    THEN Err([msg |-> "unable to convert path {} into NULL-terminated C string",
              path |-> path, source |-> "NulError"])
    ELSE Ok(path \o <<NUL>>)

\* What the buffer of a dropped CString may hold.
Dropped(bytes) == {bytes, <<NUL>> \o Tail(bytes), <<"#">>}

\* What a pointer refers to when the boundary function reads it.
Deref(p) == [ptr |-> p, alive |-> heap[p].alive, bytes |-> heap[p].bytes]

\* A faulty StatusFailed: a status of zero is a failure too.
StatusFailedOnZero(st) == st <= 0

\* The test of a boundary status: < 0.
StatusFailed(st) == st < 0

\* A faulty krun_ctx_set_arm: the variants without a binding return Ok.
krun_ctx_set_arm_skip(variant) ==
    CASE variant.tag = "Blk" -> [pc |-> "BlkConfig_233", ret |-> Unset]
      [] variant.tag = "Vsock" -> [pc |-> "VsockConfig_290", ret |-> Unset]
      [] variant.tag = "Fs" -> [pc |-> "FsConfig_375", ret |-> Unset]
      [] OTHER -> [pc |-> "returned", ret |-> Ok(<<>>)]

\* The match of VirtioDeviceConfig::krun_ctx_set: where it goes on, and
\* what it has returned by then; unimplemented!() panics.
krun_ctx_set_arm(variant) ==
    CASE variant.tag = "Blk" -> [pc |-> "BlkConfig_233", ret |-> Unset]
      [] variant.tag = "Rng" -> [pc |-> "panicked", ret |-> Unset]
      [] variant.tag = "Serial" -> [pc |-> "panicked", ret |-> Unset]
      [] variant.tag = "Vsock" -> [pc |-> "VsockConfig_290", ret |-> Unset]
      [] variant.tag = "Net" -> [pc |-> "panicked", ret |-> Unset]
      [] variant.tag = "Fs" -> [pc |-> "FsConfig_375", ret |-> Unset]

\* impl KrunContextSet for VirtioDeviceConfig
CtxSet ==
    /\ pc = "bind"
    /\ pc' = krun_ctx_set_arm(out.val).pc
    /\ ret' = krun_ctx_set_arm(out.val).ret
    /\ UNCHANGED <<s, label, sz, out, id, heap, locals, calls, status>>

\* let <name> = path_to_cstring(<path>)?.as_ptr() as *const c_char;
\* the ? returns the error; otherwise the CString is allocated at a free
\* address, which may be the one a CString dropped before had, its pointer
\* is kept and the CString is dropped.
EncodeStmt(path, name, next) ==
    LET c == path_to_cstring(path) IN
    IF ~c.ok
    THEN /\ ret' = c
         /\ pc' = "returned"
         /\ UNCHANGED <<heap, locals>>
    ELSE /\ \E a \in {x \in Addrs : ~heap[x].alive} :
            \E after \in Dropped(c.val) :
               /\ heap' = [heap EXCEPT ![a] = [alive |-> FALSE, bytes |-> after]]
               /\ locals' = [n \in DOMAIN locals \cup {name} |->
                                IF n = name THEN a ELSE locals[n]]
         /\ pc' = next
         /\ UNCHANGED ret

\* BlkConfig::krun_ctx_set, its let statement
BlkEncode ==
    /\ pc = "BlkConfig_233"
    /\ EncodeStmt(out.val.cfg.path, "path_cstr", "BlkConfig_235")
    /\ UNCHANGED <<s, label, sz, out, id, calls, status>>

\* BlkConfig::krun_ctx_set, the boundary call and the return
BlkCall ==
    /\ pc = "BlkConfig_235"
    /\ \E st \in Statuses :
          /\ calls' = Append(calls, [fn |-> "krun_set_root_disk", ctx_id |-> id,
                                     args |-> <<Deref(locals.path_cstr)>>])
          /\ status' = Some(st)
          /\ ret' = IF StatusFailed(st)
                    THEN Err([msg |-> "unable to set virtio-blk root disk"])
                    ELSE Ok(<<>>)
    /\ pc' = "returned"
    /\ UNCHANGED <<s, label, sz, out, id, heap, locals>>

\* VsockConfig::krun_ctx_set, its let statement
VsockEncode ==
    /\ pc = "VsockConfig_290"
    /\ EncodeStmt(out.val.cfg.socket_url, "path_cstr", "VsockConfig_292")
    /\ UNCHANGED <<s, label, sz, out, id, calls, status>>

\* VsockConfig::krun_ctx_set, the boundary call and the return
VsockCall ==
    /\ pc = "VsockConfig_292"
    /\ \E st \in Statuses :
          /\ calls' = Append(calls, [fn |-> "krun_add_vsock_port", ctx_id |-> id,
                                     port |-> out.val.cfg.port,
                                     args |-> <<Deref(locals.path_cstr)>>])
          /\ status' = Some(st)
          /\ ret' = IF StatusFailed(st)
                    THEN Err([msg |-> "unable to add vsock port {} for path {}",
                              port |-> out.val.cfg.port,
                              path |-> out.val.cfg.socket_url])
                    ELSE Ok(<<>>)
    /\ pc' = "returned"
    /\ UNCHANGED <<s, label, sz, out, id, heap, locals>>

\* FsConfig::krun_ctx_set, its first let statement
FsEncodeSharedDir ==
    /\ pc = "FsConfig_375"
    /\ EncodeStmt(out.val.cfg.shared_dir, "shared_dir_cstr", "FsConfig_376")
    /\ UNCHANGED <<s, label, sz, out, id, calls, status>>

\* FsConfig::krun_ctx_set, its second let statement
FsEncodeMountTag ==
    /\ pc = "FsConfig_376"
    /\ EncodeStmt(out.val.cfg.mount_tag, "mount_tag_cstr", "FsConfig_378")
    /\ UNCHANGED <<s, label, sz, out, id, calls, status>>

\* FsConfig::krun_ctx_set, the boundary call and the return
FsCall ==
    /\ pc = "FsConfig_378"
    /\ \E st \in Statuses :
          /\ calls' = Append(calls, [fn |-> "krun_add_virtiofs", ctx_id |-> id,
                                     args |-> <<Deref(locals.mount_tag_cstr),
                                                Deref(locals.shared_dir_cstr)>>])
          /\ status' = Some(st)
          /\ ret' = IF StatusFailed(st)
                    THEN Err([msg |-> "unable to add virtiofs shared directory {} with mount tag {}",
                              shared_dir |-> out.val.cfg.shared_dir,
                              mount_tag |-> out.val.cfg.mount_tag])
                    ELSE Ok(<<>>)
    /\ pc' = "returned"
    /\ UNCHANGED <<s, label, sz, out, id, heap, locals>>

NextBind ==
    \/ ResolveDevice
    \/ CtxSet
    \/ BlkEncode
    \/ BlkCall
    \/ VsockEncode
    \/ VsockCall
    \/ FsEncodeSharedDir
    \/ FsEncodeMountTag
    \/ FsCall

SpecBind == InitBind /\ [][NextBind]_vars

---------------------------------------------------------------------------
(* The claims about binding.                                               *)

Implemented == {"Blk", "Vsock", "Fs"}

\* The device has been resolved and krun_ctx_set entered.
Bound == pc \notin {"resolve", "rejected", "bind"}

\* The paths the binding of a variant has to encode, in the order of its
\* let statements.
PathsOf(variant) ==
    CASE variant.tag = "Blk" -> <<variant.cfg.path>>
      [] variant.tag = "Vsock" -> <<variant.cfg.socket_url>>
      [] variant.tag = "Fs" -> <<variant.cfg.shared_dir, variant.cfg.mount_tag>>

\* One of the paths to encode holds a 0 byte.
NulInPaths(variant) ==
    \E k \in 1..Len(PathsOf(variant)) : Count(PathsOf(variant)[k], NUL) > 0

\* C7: binding an implemented variant makes at most one boundary call:
\* none, returning the path-encoding error, when a path it has to encode
\* holds a 0 byte, and exactly one otherwise; it returns an error exactly
\* when the encoding failed or the status is negative, a status of zero
\* being a success; nothing is called after a negative status.
C7_AtMostOneCall ==
    /\ Len(calls) <= 1
    /\ pc = "returned" =>
          LET nul == NulInPaths(out.val) IN
          /\ out.val.tag \in Implemented
          /\ nul => /\ calls = <<>>
                    /\ ~ret.ok
                    /\ ret.err.msg = "unable to convert path {} into NULL-terminated C string"
          /\ ~nul => Len(calls) = 1 /\ status.some
          /\ ret.ok <=> (~nul /\ status.some /\ status.val >= 0)

\* A virtio-fs binding whose second path holds a 0 byte returned the
\* encoding error without a call, and the context id was not zero.
C7_Witness ==
    /\ pc = "returned"
    /\ out.val.tag = "Fs"
    /\ Count(out.val.cfg.shared_dir, NUL) = 0
    /\ Count(out.val.cfg.mount_tag, NUL) > 0
    /\ calls = <<>>
    /\ ~ret.ok
    /\ id = 1

\* C8: binding Rng, Serial or Net panics: for every context id it returns
\* nothing, neither success nor error, and calls nothing; Blk, Vsock and
\* Fs never panic.
C8_UnimplementedAborts ==
    Bound =>
        /\ out.val.tag \notin Implemented =>
              /\ pc = "panicked"
              /\ ret = Unset
              /\ calls = <<>>
        /\ out.val.tag \in Implemented => pc # "panicked"

\* The binding of a Serial variant to context 1 panicked.
C8_Witness ==
    /\ pc = "panicked"
    /\ out.val.tag = "Serial"
    /\ id = 1
    /\ ret = Unset
    /\ calls = <<>>

\* C9: every boundary call passes the context id of the caller and the
\* values the variant holds: the path to krun_set_root_disk, the port and
\* the socket path to krun_add_vsock_port, the mount tag and then the
\* shared directory to krun_add_virtiofs, each path as its bytes followed
\* by the terminating 0.
C9_BoundaryArguments ==
    \A k \in 1..Len(calls) :
        LET c == calls[k]
            v == out.val
        IN
        /\ c.ctx_id = id
        /\ v.tag = "Blk" =>
              /\ c.fn = "krun_set_root_disk"
              /\ c.args[1].bytes = v.cfg.path \o <<NUL>>
        /\ v.tag = "Vsock" =>
              /\ c.fn = "krun_add_vsock_port"
              /\ c.port = v.cfg.port
              /\ c.args[1].bytes = v.cfg.socket_url \o <<NUL>>
        /\ v.tag = "Fs" =>
              /\ c.fn = "krun_add_virtiofs"
              /\ c.args[1].bytes = v.cfg.mount_tag \o <<NUL>>
              /\ c.args[2].bytes = v.cfg.shared_dir \o <<NUL>>

\* C10: every pointer handed to a boundary call refers to a buffer that is
\* still allocated when the call is made.
C10_BuffersAlive ==
    \A k \in 1..Len(calls) :
        \A j \in 1..Len(calls[k].args) : calls[k].args[j].alive

===========================================================================
